---------------------------- MODULE Spec2Model ----------------------------
(***************************************************************************)
(* A model of src/one.py: class GenerativeModel, a random Markov chain     *)
(* over world_size discrete states.                                        *)
(*                                                                         *)
(* Python values are modelled as tagged records: an ndarray is             *)
(* [kind |-> "ndarray", v |-> f] with f a function on 0 .. L-1 (numpy's    *)
(* 0-based indexing is kept), a plain Python int i is                      *)
(* [kind |-> "int", v |-> <<i>>], and the 0-d array np.zeros_like(i) is    *)
(* [kind |-> "ndarray0d", v |-> <<0>>].  Arrays are mutable objects, so    *)
(* they live in a heap (a sequence of values indexed by reference) and     *)
(* the program's variables hold references.                                *)
(*                                                                         *)
(* A float is modelled exactly, as the pair <<num, den>> standing for      *)
(* num/den; den = 0 is the NaN that 0.0/0.0 produces.  A raw draw of       *)
(* np.random.uniform is d/2 for d in UniformDraws, a finite sample of      *)
(* [0, 1) that contains 0.                                                 *)
(***************************************************************************)
EXTENDS Integers, Sequences, FiniteSets

\* ------------------------------------------------------------- bounds
\* Largest world_size passed to the constructor.
MaxWorldSize == 2
\* Largest num_steps passed to run_simulation.
MaxSteps == 2

\* Raw draws of np.random.uniform, as numerators over 2: 0.0 and 0.5.
UniformDraws == {0, 1}
\* Values an entry of a caller-supplied vector may take.
Entries == {0, 1, 2}
\* world_size arguments tried: a negative one, zero, and the positive ones.
WorldSizes == (-1) .. MaxWorldSize
\* num_steps arguments tried: a negative one, zero, and the positive ones.
NumSteps == (-1) .. MaxSteps

VARIABLES
    pc,                 \* "new", "failed", "idle", "running", "returned", "raised"
    world_size,         \* self.world_size
    states,             \* self.states
    transition_matrix,  \* self.transition_matrix
    op,                 \* the method of the current (or last) call
    arg,                \* the value the caller's state argument had at the call
    num_steps,          \* run_simulation's num_steps argument
    heap,               \* the arrays alive in the call: reference -> value
    current_state,      \* run_simulation's local current_state (a reference)
    trajectory,         \* run_simulation's local trajectory (a list of references)
    i,                  \* iterations of run_simulation's loop completed
    current_state_id,   \* sample_next_state's local, -1 before it is assigned
    next_state_id,      \* sample_next_state's local, -1 before it is assigned
    next_state,         \* the reference sample_next_state returned last, 0 if none
    error               \* the exception that ended the call, "" if none

model == <<world_size, states, transition_matrix>>
frame == <<op, arg, num_steps, heap, current_state, trajectory, i,
           current_state_id, next_state_id, next_state, error>>
vars == <<pc, world_size, states, transition_matrix, op, arg, num_steps, heap,
          current_state, trajectory, i, current_state_id, next_state_id,
          next_state, error>>

\* ------------------------------------------------------- Python values
NdArray(f) == [kind |-> "ndarray", v |-> f]
PyInt(n) == [kind |-> "int", v |-> <<n>>]
NdArray0d == [kind |-> "ndarray0d", v |-> <<0>>]

\* len() of a 1-d array.
Size(a) == Cardinality(DOMAIN a.v)

\* All 1-d arrays of length L over Entries.
Vectors(L) == {NdArray(f) : f \in [0 .. L - 1 -> Entries]}

\* The one-hot array of length L marking index j.
OneHot(L, j) == NdArray([k \in 0 .. L - 1 |-> IF k = j THEN 1 ELSE 0])

\* A valid one-hot encoding of length n: exactly one entry is 1, the rest 0.
IsOneHot(a, n) ==
    /\ a.kind = "ndarray"
    /\ Size(a) = n
    /\ \E j \in 0 .. n - 1 : a = OneHot(n, j)

RECURSIVE SumTo(_, _)
SumTo(f, n) == IF n = 0 THEN 0 ELSE f[n - 1] + SumTo(f, n - 1)

\* ------------------------------------------------------------ floats
IsNaN(x) == x[2] = 0
NonNegative(x) == x[2] > 0 /\ x[1] >= 0
Positive(x) == x[2] > 0 /\ x[1] > 0
\* x / y for a raw draw x and a row sum y (both numerators over 2).
Divide(x, y) == <<x, y>>
\* The sum of a row of floats with one common denominator equals 1.
RowSumsToOne(row, n) ==
    /\ n > 0
    /\ \A j \in 0 .. n - 1 : row[j][2] = row[0][2]
    /\ row[0][2] > 0
    /\ SumTo([j \in 0 .. n - 1 |-> row[j][1]], n) = row[0][2]

\* ------------------------------------------------------- construction
\* np.eye(n)
Eye(n) == [r \in 0 .. n - 1 |-> [c \in 0 .. n - 1 |-> IF r = c THEN 1 ELSE 0]]

\* np.random.uniform(size=(n, n)): every matrix of raw draws.
RawMatrices(n) == [0 .. n - 1 -> [0 .. n - 1 -> UniformDraws]]

\* matrix / np.sum(matrix, axis=1, keepdims=True)
Normalize(matrix, n) ==
    [r \in 0 .. n - 1 |->
        [c \in 0 .. n - 1 |-> Divide(matrix[r][c], SumTo(matrix[r], n))]]

\* GenerativeModel(n).  np.eye raises ValueError for a negative dimension;
\* every other size, 0 included, yields a model.
Construct ==
    /\ pc = "new"
    /\ \E n \in WorldSizes :
         /\ world_size' = n
         /\ IF n < 0
            THEN /\ pc' = "failed"
                 /\ error' = "ValueError"
                 /\ UNCHANGED <<states, transition_matrix>>
            ELSE /\ pc' = "idle"
                 /\ error' = ""
                 /\ states' = Eye(n)
                 /\ \E matrix \in RawMatrices(n) :
                      transition_matrix' = Normalize(matrix, n)
    /\ UNCHANGED <<op, arg, num_steps, heap, current_state, trajectory, i,
                   current_state_id, next_state_id, next_state>>

\* -------------------------------------------------- sample_next_state
\* np.argmax(a) raises ValueError on an empty array.
ArgMaxRaises(a) == a.kind = "ndarray" /\ Size(a) = 0

\* A bug: the last index holding the maximum instead of the first.
ArgMaxLast(a) ==
    IF a.kind = "ndarray"
    THEN CHOOSE k \in DOMAIN a.v :
            /\ \A j \in DOMAIN a.v : a.v[j] <= a.v[k]
            /\ \A j \in DOMAIN a.v : j > k => a.v[j] < a.v[k]
    ELSE 0

\* np.argmax(a): the first index holding the maximum; 0 for a scalar, which
\* numpy treats as a 0-d array.
ArgMax(a) ==
    IF a.kind = "ndarray"
    THEN CHOOSE k \in DOMAIN a.v :
            /\ \A j \in DOMAIN a.v : a.v[j] <= a.v[k]
            /\ \A j \in DOMAIN a.v : j < k => a.v[j] < a.v[k]
    ELSE 0

\* np.random.choice(len(p), p=p) raises ValueError when p holds a NaN.
ChoiceRaises(p) == \E j \in DOMAIN p : IsNaN(p[j])

\* np.random.choice(len(p), p=p): the indices it can return, those of
\* positive probability (it inverts the cumulative sum with side='right',
\* so an index of probability 0 is never drawn).
Choice(p) == {j \in DOMAIN p : Positive(p[j])}

\* The value np.zeros_like(a) has.
Zeros(a) ==
    IF a.kind = "ndarray" THEN NdArray([k \in DOMAIN a.v |-> 0]) ELSE NdArray0d

\* A bug: the new array starts as a copy of the current state.
ZerosLikeCopies(h, ref) ==
    [heap |-> Append(h, IF h[ref].kind = "ndarray" THEN h[ref] ELSE NdArray0d),
     ref |-> Len(h) + 1]

\* A bug: the current state's own array is cleared and reused.
ZerosLikeInPlace(h, ref) ==
    [heap |-> [h EXCEPT ![ref] = Zeros(h[ref])], ref |-> ref]

\* next_state = np.zeros_like(current_state): a new array on the heap.
ZerosLike(h, ref) == [heap |-> Append(h, Zeros(h[ref])), ref |-> Len(h) + 1]

\* next_state[j] = 1 raises IndexError on a 0-d array and past the end.
SetItemRaises(a, j) == a.kind # "ndarray" \/ j >= Size(a)

\* next_state[j] = 1
SetItem(h, ref, j) == [h EXCEPT ![ref] = NdArray([h[ref].v EXCEPT ![j] = 1])]

\* How a call of sample_next_state ends.
Outcome(e, h, ref, csid, nsid) ==
    [error |-> e, heap |-> h, ref |-> ref,
     current_state_id |-> csid, next_state_id |-> nsid]

\* self.sample_next_state(current_state) with current_state the array (or
\* int) at ref of heap h: every way the call can end.
SampleNextState(tm, h, ref) ==
    IF ArgMaxRaises(h[ref])
    THEN {Outcome("ValueError", h, 0, -1, -1)}
    ELSE LET csid == ArgMax(h[ref]) IN
         IF csid \notin DOMAIN tm
         THEN {Outcome("IndexError", h, 0, csid, -1)}
         ELSE LET probabilities == tm[csid] IN
              IF ChoiceRaises(probabilities)
              THEN {Outcome("ValueError", h, 0, csid, -1)}
              ELSE {LET z == ZerosLike(h, ref) IN
                    IF SetItemRaises(z.heap[z.ref], nsid)
                    THEN Outcome("IndexError", z.heap, 0, csid, nsid)
                    ELSE Outcome("", SetItem(z.heap, z.ref, nsid), z.ref,
                                 csid, nsid)
                    : nsid \in Choice(probabilities)}

\* What a caller may pass as a state to a model of size n: any array of
\* length 0 .. n+1 over Entries, or a plain index in [0, n).
StateArgs(n) ==
    UNION {Vectors(L) : L \in 0 .. n + 1} \cup {PyInt(k) : k \in 0 .. n - 1}

\* The model object exists and no call is in progress.
Callable == pc = "idle"

\* A bug: a call draws the transition matrix afresh.
ModelRegenerated ==
    /\ UNCHANGED <<world_size, states>>
    /\ transition_matrix' \in
          {Normalize(matrix, world_size) : matrix \in RawMatrices(world_size)}

\* Neither method assigns to self or writes through self.transition_matrix.
ModelUnchanged == UNCHANGED <<world_size, states, transition_matrix>>

\* A call model.sample_next_state(a) from outside.
SampleNextStateCall ==
    /\ Callable
    /\ \E a \in StateArgs(world_size) :
         \E o \in SampleNextState(transition_matrix, <<a>>, 1) :
            /\ op' = "sample"
            /\ arg' = a
            /\ heap' = o.heap
            /\ current_state_id' = o.current_state_id
            /\ next_state_id' = o.next_state_id
            /\ next_state' = o.ref
            /\ error' = o.error
            /\ pc' = IF o.error = "" THEN "returned" ELSE "raised"
    /\ num_steps' = 0
    /\ current_state' = 0
    /\ trajectory' = <<>>
    /\ i' = 0
    /\ ModelUnchanged

\* A bug: range(num_steps + 1).
LoopRunsOnceMore(done, n) == done <= n

\* for _ in range(num_steps): whether another iteration follows.
LoopContinues(done, n) == done < n

\* A call model.run_simulation(a, k) from outside, up to the loop.
RunSimulation ==
    /\ Callable
    /\ \E a \in StateArgs(world_size), k \in NumSteps :
         /\ arg' = a
         /\ num_steps' = k
         /\ heap' = <<a>>
    /\ op' = "run"
    /\ pc' = "running"
    /\ current_state' = 1
    /\ trajectory' = <<1>>
    /\ i' = 0
    /\ current_state_id' = -1
    /\ next_state_id' = -1
    /\ next_state' = 0
    /\ error' = ""
    /\ ModelUnchanged

\* One iteration of run_simulation's loop.
RunStep ==
    /\ pc = "running"
    /\ LoopContinues(i, num_steps)
    /\ \E o \in SampleNextState(transition_matrix, heap, current_state) :
         /\ heap' = o.heap
         /\ current_state_id' = o.current_state_id
         /\ next_state_id' = o.next_state_id
         /\ next_state' = o.ref
         /\ error' = o.error
         /\ IF o.error = ""
            THEN /\ current_state' = o.ref
                 /\ trajectory' = Append(trajectory, o.ref)
                 /\ i' = i + 1
                 /\ pc' = "running"
            ELSE /\ pc' = "raised"
                 /\ UNCHANGED <<current_state, trajectory, i>>
    /\ UNCHANGED <<op, arg, num_steps>>
    /\ ModelUnchanged

\* return trajectory
RunReturn ==
    /\ pc = "running"
    /\ ~LoopContinues(i, num_steps)
    /\ pc' = "returned"
    /\ UNCHANGED frame
    /\ ModelUnchanged

\* The caller is done with what the call returned or raised (the example
\* usage prints the trajectory and drops it); the model can be called again.
Release ==
    /\ pc \in {"returned", "raised"}
    /\ pc' = "idle"
    /\ op' = "none"
    /\ arg' = PyInt(0)
    /\ num_steps' = 0
    /\ heap' = <<>>
    /\ current_state' = 0
    /\ trajectory' = <<>>
    /\ i' = 0
    /\ current_state_id' = -1
    /\ next_state_id' = -1
    /\ next_state' = 0
    /\ error' = ""
    /\ ModelUnchanged

Init ==
    /\ pc = "new"
    /\ world_size = 0
    /\ states = <<>>
    /\ transition_matrix = <<>>
    /\ op = "none"
    /\ arg = PyInt(0)
    /\ num_steps = 0
    /\ heap = <<>>
    /\ current_state = 0
    /\ trajectory = <<>>
    /\ i = 0
    /\ current_state_id = -1
    /\ next_state_id = -1
    /\ next_state = 0
    /\ error = ""

Next ==
    \/ Construct
    \/ SampleNextStateCall
    \/ RunSimulation
    \/ RunStep
    \/ RunReturn
    \/ Release

Spec == Init /\ [][Next]_vars

\* ------------------------------------------------------------- claims
\* The model object exists.
Constructed == pc \notin {"new", "failed"}

\* Every row of the matrix is a probability distribution.
WellFormed ==
    /\ world_size >= 1
    /\ \A r \in DOMAIN transition_matrix :
         RowSumsToOne(transition_matrix[r], world_size)

\* A call from outside has ended.
Ended == pc \in {"returned", "raised"}

AllZero(a) == a.kind = "ndarray" /\ \A k \in DOMAIN a.v : a.v[k] = 0
WrongLength(a, n) == a.kind = "ndarray" /\ Size(a) # n
ManyNonzero(a) ==
    /\ a.kind = "ndarray"
    /\ Cardinality({k \in DOMAIN a.v : a.v[k] # 0}) > 1
\* The three malformed encodings the specification lists.
Malformed(a, n) == AllZero(a) \/ WrongLength(a, n) \/ ManyNonzero(a)

C2_TrajectoryOneHot ==
    (Constructed /\ world_size >= 1 /\ IsOneHot(arg, world_size)) =>
       /\ op = "run" =>
             \A k \in 1 .. Len(trajectory) :
                IsOneHot(heap[trajectory[k]], world_size)
       /\ (op = "sample" /\ pc = "returned") =>
             IsOneHot(heap[next_state], world_size)

\* A run from a one-hot state has returned after moving to another state.
C2_Witness ==
    /\ op = "run" /\ pc = "returned"
    /\ IsOneHot(arg, world_size)
    /\ Len(trajectory) = MaxSteps + 1
    /\ heap[trajectory[2]] # heap[trajectory[1]]

\* C3: sample_next_state never returns a state for a malformed input (an
\* all-zero array, one of the wrong length, one with several nonzero
\* entries).
C3_MalformedRejected ==
    (op = "sample" /\ Malformed(arg, world_size)) => pc # "returned"

\* C4: run_simulation never returns a trajectory for a negative num_steps
\* (stated for a well-formed model and a valid one-hot initial state, where
\* nothing else is wrong with the call).
C4_NegativeStepsRejected ==
    (op = "run" /\ num_steps < 0 /\ WellFormed /\ IsOneHot(arg, world_size))
        => pc # "returned"

\* C5: no model object comes out of a constructor call whose world_size is
\* not positive.
C5_NonPositiveSizeRejected ==
    (pc # "new" /\ world_size < 1) => pc = "failed"

\* C6: given the plain integer index i of a well-formed model,
\* sample_next_state draws from row i and returns a valid next state.
C6_IntegerIndexSupported ==
    (op = "sample" /\ Ended /\ WellFormed /\ arg.kind = "int") =>
       /\ pc = "returned"
       /\ current_state_id = arg.v[1]
       /\ next_state_id \in Choice(transition_matrix[arg.v[1]])

\* C7: a constructed model of size N >= 1 holds an N x N matrix of
\* non-negative entries whose every row sums to 1.
C7_RowsStochastic ==
    (Constructed /\ world_size >= 1) =>
       /\ DOMAIN transition_matrix = 0 .. world_size - 1
       /\ \A r \in DOMAIN transition_matrix :
            /\ DOMAIN transition_matrix[r] = 0 .. world_size - 1
            /\ \A c \in DOMAIN transition_matrix[r] :
                 NonNegative(transition_matrix[r][c])
            /\ RowSumsToOne(transition_matrix[r], world_size)

\* C8: once the model is constructed, no step of any call changes
\* world_size, states or transition_matrix.
C8_ModelImmutable == [][Constructed => model' = model]_vars

\* A run of MaxSteps steps has returned on a model of the largest size.
C8_Witness ==
    /\ op = "run" /\ pc = "returned"
    /\ world_size = MaxWorldSize
    /\ i = MaxSteps
    /\ i > 0

C10_FreshResultMarkov ==
    [][/\ (pc = "running" /\ pc' # "idle") =>
            /\ \A r \in 1 .. Len(heap) : heap'[r] = heap[r]
            /\ heap'[1] = arg
            /\ SubSeq(trajectory', 1, Len(trajectory)) = trajectory
            /\ Len(trajectory') > Len(trajectory) =>
                  LET last == heap[trajectory[Len(trajectory)]]
                      new == trajectory'[Len(trajectory')]
                  IN  /\ Len(trajectory') = Len(trajectory) + 1
                      /\ new \notin 1 .. Len(heap)
                      /\ \E j \in Choice(transition_matrix[ArgMax(last)]) :
                            heap'[new] = OneHot(Size(last), j)
       /\ (op' = "sample" /\ pc = "idle" /\ pc' = "returned") =>
            /\ heap'[1] = arg'
            /\ next_state' # 1
            /\ \E j \in Choice(transition_matrix[ArgMax(arg')]) :
                  heap'[next_state'] = OneHot(Size(arg'), j)
      ]_vars

\* A run has returned a trajectory that left its initial state and came
\* back, three distinct arrays.
C10_Witness ==
    /\ op = "run" /\ pc = "returned"
    /\ Len(trajectory) = 3
    /\ Cardinality({trajectory[k] : k \in 1 .. 3}) = 3
    /\ heap[trajectory[2]] # heap[trajectory[1]]
    /\ heap[trajectory[3]] = heap[trajectory[1]]
=============================================================================
